---- MODULE Spec2Model ----
(***************************************************************************)
(* Ingestion-and-retrieval pipeline of the SAP IS-U knowledge base.        *)
(*                                                                         *)
(* State: the relational store (documents, chunks), the vector store       *)
(* (points), and one call record per request in flight.  A text is a       *)
(* sequence of paragraphs, a paragraph a sequence of sentences, a sentence *)
(* a sequence of words, a word a sequence of characters, so that the       *)
(* regular expressions, the length checks and the chunker are computed on  *)
(* the text as the code computes them.                                     *)
(*                                                                         *)
(* The external services are interfaces: the generation call returns a     *)
(* structure or fails, the embedding call and the vector upsert succeed or *)
(* fail as a whole (a call that raises has written nothing), the           *)
(* relational store executes one statement or one commit atomically.  The  *)
(* tokenizer counts one token per word.                                    *)
(*                                                                         *)
(* services/ingest.py reads settings.max_chunks_per_doc (line 359) but has *)
(* no import that binds the name settings (lines 5-18).  Where the name is *)
(* unbound, _process_chunks raises NameError after the Document row was    *)
(* committed; where the package wiring binds it, the chunk stage runs.     *)
(* settings_bound is fixed in the initial state and both cases are         *)
(* explored.                                                               *)
(***************************************************************************)
EXTENDS Integers, Sequences, FiniteSets, TLC

\* ------------------------------------------------------------------------
\* Bounds of the model
\* ------------------------------------------------------------------------

\* ingest calls that reach the router in one behaviour
MaxCalls == 2

\* search/chat requests in one behaviour
MaxSearches == 1

\* reindex requests in one behaviour
MaxReindexes == 1

\* Settings() reads chunk_size, chunk_overlap and max_chunks_per_doc from the
\* environment (api/config.py:66-68, defaults 800, 150 and 50); the model
\* runs a small configuration of them, with texts of a few words.
chunk_size == 8

chunk_overlap == 2

max_chunks_per_doc == 2

\* Settings.top_k_initial and Settings.top_k_final
top_k_initial == 30

top_k_final == 5

Procs == {"p1", "p2"}

Tenants == {"acme", "STANDARD"}

None == "None"

\* ------------------------------------------------------------------------
\* Texts
\* ------------------------------------------------------------------------

wZTAB == <<"Z", "T", "A", "B">>

wfallo == <<"f", "a", "l", "l", "o">>

wdatos == <<"d", "a", "t", "o", "s">>

wEC85 == <<"E", "C", "8", "5">>

wec85 == <<"e", "c", "8", "5">>

wEABLG == <<"E", "A", "B", "L", "G">>

wfacturas == <<"f", "a", "c", "t", "u", "r", "a", "s">>

wbaja == <<"b", "a", "j", "a">>

\* a paragraph of one sentence of five plain words
pPlain == << <<wfallo, wdatos, wfallo, wdatos, wfallo>> >>

\* a paragraph of one sentence that names a custom object
pCustom == << <<wfallo, wdatos, wZTAB, wdatos, wfallo>> >>

\* a paragraph of one sentence that names a transaction code of billing, a
\* table, and a keyword of move-out
pCodes == << <<wfallo, wEC85, wdatos, wEABLG, wbaja>> >>

TextIds == {"short", "zobj", "plain"}

\* the text of each id, as paragraphs of sentences of words
Content(t) ==
    CASE t = "short"  -> << << <<wfallo>> >> >>
      [] t = "zobj"   -> <<pCustom, pPlain>>
      [] t = "plain"  -> <<pPlain, pPlain, pPlain>>
      [] t = "note"   -> <<pPlain, pPlain>>
      [] t = "codes"  -> <<pCodes>>

RECURSIVE SumLen(_)
SumLen(s) == IF s = <<>> THEN 0 ELSE Len(Head(s)) + SumLen(Tail(s))

RECURSIVE Sum(_)
Sum(s) == IF s = <<>> THEN 0 ELSE Head(s) + Sum(Tail(s))

RECURSIVE Concat(_)
Concat(s) == IF s = <<>> THEN <<>> ELSE Head(s) \o Concat(Tail(s))

\* words of a sentence are joined by one blank
SentenceChars(sentence) == SumLen(sentence) + (Len(sentence) - 1)

\* sentences of a paragraph are joined by ". "
ParagraphChars(para) ==
    Sum([i \in 1..Len(para) |-> SentenceChars(para[i])]) + 2 * (Len(para) - 1)

\* paragraphs are joined by a blank line; len(text)
TextLen(t) ==
    LET c == Content(t)
    IN  Sum([i \in 1..Len(c) |-> ParagraphChars(c[i])]) + 2 * (Len(c) - 1)

ParagraphWords(para) == Concat(para)

TextWords(t) == Concat([i \in 1..Len(Content(t)) |-> ParagraphWords(Content(t)[i])])

LowerCase == <<"a", "b", "c", "d", "e", "f", "g", "h", "i", "j", "k", "l", "m",
               "n", "o", "p", "q", "r", "s", "t", "u", "v", "w", "x", "y", "z">>

UpperCase == <<"A", "B", "C", "D", "E", "F", "G", "H", "I", "J", "K", "L", "M",
               "N", "O", "P", "Q", "R", "S", "T", "U", "V", "W", "X", "Y", "Z">>

Digits == {"0", "1", "2", "3", "4", "5", "6", "7", "8", "9"}

UpperChar(c) ==
    IF \E i \in 1..26 : LowerCase[i] = c
    THEN UpperCase[CHOOSE i \in 1..26 : LowerCase[i] = c]
    ELSE c

\* str.upper() of a word
Upper(w) == [i \in 1..Len(w) |-> UpperChar(w[i])]

UpperSet == {UpperCase[i] : i \in 1..26}

Range(seq) == {seq[i] : i \in 1..Len(seq)}

\* the characters of words joined by one blank
RECURSIVE Join(_)
Join(words) ==
    IF words = <<>> THEN <<>>
    ELSE IF Len(words) = 1 THEN words[1]
    ELSE LET half == Len(words) \div 2
         IN  Join(SubSeq(words, 1, half)) \o <<" ">>
             \o Join(SubSeq(words, half + 1, Len(words)))

\* sub in s, on characters
Contains(s, sub) ==
    \E i \in 1..(Len(s) - Len(sub) + 1) : \A j \in 1..Len(sub) : s[i + j - 1] = sub[j]

LowerChar(c) ==
    IF \E i \in 1..26 : UpperCase[i] = c
    THEN LowerCase[CHOOSE i \in 1..26 : UpperCase[i] = c]
    ELSE c

\* str.lower() and str.upper() of a text
LowerText(s) == [i \in 1..Len(s) |-> LowerChar(s[i])]

UpperText(s) == [i \in 1..Len(s) |-> UpperChar(s[i])]

\* ------------------------------------------------------------------------
\* MetadataExtractor
\* ------------------------------------------------------------------------

\* the characters \w matches in the texts of the model
WordChars == UpperSet \cup {LowerCase[i] : i \in 1..26} \cup Digits \cup {"_"}

\* the maximal runs of word characters of a word.  Each of the three patterns
\* matches word characters only, between two \b, so findall returns exactly
\* the runs that match as a whole.
RECURSIVE Tokens(_)
Tokens(w) ==
    IF w = <<>> THEN <<>>
    ELSE IF w[1] \notin WordChars THEN Tokens(Tail(w))
    ELSE LET n == CHOOSE k \in 1..Len(w) :
                    /\ \A i \in 1..k : w[i] \in WordChars
                    /\ k = Len(w) \/ w[k + 1] \notin WordChars
         IN  <<SubSeq(w, 1, n)>> \o Tokens(SubSeq(w, n + 1, Len(w)))

\* the runs of word characters of text.upper()
UpperTokens(words) ==
    UNION {Range(Tokens(Upper(words[i]))) : i \in 1..Len(words)}

\* TCODE_PATTERN = \b[A-Z]{2}\d{2}\b
TCODE_PATTERN(w) ==
    /\ Len(w) = 4
    /\ w[1] \in UpperSet /\ w[2] \in UpperSet
    /\ w[3] \in Digits /\ w[4] \in Digits

\* TABLE_PATTERN = \b[A-Z][A-Z0-9_]{3,}\b
TABLE_PATTERN(w) ==
    /\ Len(w) >= 4
    /\ w[1] \in UpperSet
    /\ \A i \in 2..Len(w) : w[i] \in UpperSet \cup Digits \cup {"_"}

\* Z_OBJECT_PATTERN = \b[ZY][A-Z0-9_]{2,}\b on a whole word
Z_OBJECT_PATTERN(w) ==
    /\ Len(w) >= 3
    /\ w[1] \in {"Z", "Y"}
    /\ \A i \in 2..Len(w) : w[i] \in UpperSet \cup Digits \cup {"_"}

ISU_TCODES ==
    {<<"E", "C", "8", "5">>, <<"E", "C", "8", "6">>,
     <<"E", "C", "8", "7">>, <<"E", "C", "0", "1">>,
     <<"E", "C", "0", "2">>, <<"E", "C", "0", "3">>,
     <<"E", "C", "1", "0">>, <<"E", "C", "1", "1">>,
     <<"E", "S", "2", "1">>, <<"E", "S", "2", "2">>,
     <<"E", "S", "2", "3">>, <<"E", "S", "3", "1">>,
     <<"E", "S", "3", "2">>, <<"E", "S", "3", "3">>,
     <<"E", "S", "4", "1">>, <<"E", "S", "4", "2">>,
     <<"E", "L", "3", "1">>, <<"E", "L", "3", "2">>,
     <<"E", "L", "3", "3">>, <<"E", "L", "3", "4">>,
     <<"E", "L", "3", "5">>, <<"E", "L", "3", "6">>,
     <<"E", "L", "3", "7">>, <<"E", "L", "3", "8">>,
     <<"E", "A", "B", "L">>, <<"E", "A", "B", "L", "G">>,
     <<"E", "O", "R", "D">>, <<"E", "O", "R", "D", "G">>,
     <<"E", "V", "E", "R">>, <<"E", "V", "E", "R", "G">>,
     <<"E", "A", "N", "L">>, <<"E", "A", "N", "L", "G">>}

ISU_TABLES ==
    {<<"E", "A", "B", "L", "G">>, <<"E", "A", "B", "L">>,
     <<"E", "O", "R", "D", "G">>, <<"E", "O", "R", "D">>,
     <<"E", "V", "E", "R", "G">>, <<"E", "V", "E", "R">>,
     <<"E", "A", "N", "L", "G">>, <<"E", "A", "N", "L">>,
     <<"B", "U", "T", "0", "0", "0">>, <<"B", "U", "T", "0", "2", "0">>,
     <<"A", "D", "R", "C">>, <<"F", "K", "K", "V", "K", "P">>,
     <<"F", "K", "K", "V", "K">>, <<"E", "R", "C", "H">>,
     <<"E", "R", "C", "H", "C">>, <<"D", "F", "K", "K", "K", "O">>,
     <<"D", "F", "K", "K", "O", "P">>,
     <<"E", "U", "I", "T", "R", "A", "N", "S">>,
     <<"E", "S", "E", "R", "V", "P", "R", "O", "V">>,
     <<"T", "E", "4", "1", "0">>, <<"T", "E", "4", "1", "6">>}

\* TOPIC_MAPPING in the order of the dict
TOPIC_MAPPING ==
    <<[topic |-> "billing",
        tcodes |-> {<<"E", "C", "8", "5">>, <<"E", "C", "8", "6">>,
                <<"E", "C", "8", "7">>, <<"E", "A", "B", "L">>,
                <<"E", "A", "B", "L", "G">>}],
       [topic |-> "move-in",
        tcodes |-> {<<"E", "S", "2", "1">>, <<"E", "S", "2", "2">>,
                <<"E", "S", "2", "3">>, <<"E", "S", "3", "1">>}],
       [topic |-> "move-out",
        tcodes |-> {<<"E", "S", "3", "2">>, <<"E", "S", "3", "3">>,
                <<"E", "S", "4", "1">>, <<"E", "S", "4", "2">>}],
       [topic |-> "device-management",
        tcodes |-> {<<"E", "L", "3", "1">>, <<"E", "L", "3", "2">>,
                <<"E", "L", "3", "3">>, <<"E", "L", "3", "4">>}],
       [topic |-> "dunning",
        tcodes |-> {<<"F", "K", "K", "V", "K", "P">>,
                <<"F", "K", "K", "V", "K">>,
                <<"D", "F", "K", "K", "K", "O">>}],
       [topic |-> "contracts",
        tcodes |-> {<<"E", "C", "0", "1">>, <<"E", "C", "0", "2">>,
                <<"E", "C", "0", "3">>, <<"E", "C", "1", "0">>}]>>

\* the keyword lists of infer_topic in the order of the if/elif chain
TOPIC_KEYWORDS ==
    <<[topic |-> "billing",
        words |-> {<<"f", "a", "c", "t", "u", "r", "a">>,
               <<"b", "i", "l", "l", "i", "n", "g">>,
               <<"l", "e", "c", "t", "u", "r", "a">>,
               <<"c", "o", "n", "s", "u", "m", "o">>}],
       [topic |-> "move-in",
        words |-> {<<"a", "l", "t", "a">>,
               <<"m", "o", "v", "e", "-", "i", "n">>,
               <<"c", "o", "n", "e", "x", "i", "o", "n">>,
               <<"s", "u", "m", "i", "n", "i", "s", "t", "r", "o">>}],
       [topic |-> "move-out",
        words |-> {<<"b", "a", "j", "a">>,
               <<"m", "o", "v", "e", "-", "o", "u", "t">>,
               <<"d", "e", "s", "c", "o", "n", "e", "x", "i", "o", "n">>}],
       [topic |-> "device-management",
        words |-> {<<"a", "p", "a", "r", "a", "t", "o">>,
               <<"d", "e", "v", "i", "c", "e">>,
               <<"c", "o", "n", "t", "a", "d", "o", "r">>,
               <<"m", "e", "d", "i", "d", "o", "r">>}],
       [topic |-> "dunning",
        words |-> {<<"r", "e", "c", "l", "a", "m", "a", "c", "i", "o", "n">>,
               <<"d", "u", "n", "n", "i", "n", "g">>,
               <<"i", "m", "p", "a", "g", "o">>}],
       [topic |-> "contracts",
        words |-> {<<"c", "o", "n", "t", "r", "a", "t", "o">>,
               <<"c", "o", "n", "t", "r", "a", "c", "t">>}]>>

\* an extraction that matches the text as written
extract_tcodes_as_written(words) ==
    {tok \in UNION {Range(Tokens(words[i])) : i \in 1..Len(words)} :
        TCODE_PATTERN(tok) /\ tok \in ISU_TCODES}

\* extract_tcodes: the shape matches of text.upper() that are in the
\* allow-list
extract_tcodes(words) ==
    {tok \in UpperTokens(words) : TCODE_PATTERN(tok) /\ tok \in ISU_TCODES}

\* extract_tables
extract_tables(words) ==
    {tok \in UpperTokens(words) : TABLE_PATTERN(tok) /\ tok \in ISU_TABLES}

\* detect_z_objects on the words of a text: every shape match of
\* text.upper(), no allow-list
z_objects_of_words(words) ==
    {tok \in UpperTokens(words) : Z_OBJECT_PATTERN(tok)}

\* detect_z_objects
detect_z_objects(t) == z_objects_of_words(TextWords(t))

\* the topic of the first entry of a topic list among the entries that
\* match (given by their positions), None when none does
FirstTopic(entries, matching) ==
    IF matching # {}
    THEN entries[CHOOSE i \in matching : \A j \in matching : i <= j].topic
    ELSE None

\* a topic inference that reads the keywords first
infer_topic_keywords_first(tcodes, tables, words) ==
    LET text_lower == LowerText(Join(words))
        by_keyword == {i \in 1..Len(TOPIC_KEYWORDS) :
                         \E word \in TOPIC_KEYWORDS[i].words :
                            Contains(text_lower, word)}
        by_tcode == {i \in 1..Len(TOPIC_MAPPING) :
                       \E tcode \in TOPIC_MAPPING[i].tcodes : tcode \in tcodes}
    IN  IF by_keyword # {} THEN FirstTopic(TOPIC_KEYWORDS, by_keyword)
        ELSE FirstTopic(TOPIC_MAPPING, by_tcode)

\* infer_topic: the loop over TOPIC_MAPPING returns at the first topic with a
\* code in tcodes; else the if/elif chain returns at the first keyword list
\* with a keyword in text.lower().  No keyword holds a blank, a period or a
\* line break, so a keyword occurs in the text iff it occurs in the words
\* joined by blanks.
infer_topic(tcodes, tables, words) ==
    LET text_lower == LowerText(Join(words))
        by_tcode == {i \in 1..Len(TOPIC_MAPPING) :
                       \E tcode \in TOPIC_MAPPING[i].tcodes : tcode \in tcodes}
        by_keyword == {i \in 1..Len(TOPIC_KEYWORDS) :
                         \E word \in TOPIC_KEYWORDS[i].words :
                            Contains(text_lower, word)}
    IN  IF by_tcode # {} THEN FirstTopic(TOPIC_MAPPING, by_tcode)
        ELSE FirstTopic(TOPIC_KEYWORDS, by_keyword)

\* infer_system
infer_system(tcodes, tables) ==
    IF tcodes # {} \/ tables # {} THEN "IS-U" ELSE None

\* DocumentMetadata: given tells a supplied value from an absent one
NoMetadata == [given |-> FALSE, system |-> None, topic |-> None, tcodes |-> {},
               tables |-> {}, tags |-> {}]

\* DocumentProcessor._extract_metadata
_extract_metadata(words) ==
    LET tcodes == extract_tcodes(words)
        tables == extract_tables(words)
    IN  [given |-> TRUE, system |-> infer_system(tcodes, tables),
         topic |-> infer_topic(tcodes, tables, words),
         tcodes |-> tcodes, tables |-> tables, tags |-> {}]

\* DocumentProcessor._merge_metadata
_merge_metadata(extracted, provided) ==
    IF ~provided.given THEN extracted
    ELSE [given |-> TRUE,
          system |-> IF provided.system # None THEN provided.system
                     ELSE extracted.system,
          topic |-> IF provided.topic # None THEN provided.topic
                    ELSE extracted.topic,
          tcodes |-> provided.tcodes \cup extracted.tcodes,
          tables |-> provided.tables \cup extracted.tables,
          tags |-> provided.tags]

\* ------------------------------------------------------------------------
\* Scope resolution and validation warnings
\* ------------------------------------------------------------------------

ScopeRequests == {"STANDARD", "CLIENT_SPECIFIC", None}

\* scope resolution that ignores the force flag
_determine_scope_unforced(requested_scope, z_objects, force_scope) ==
    IF requested_scope = "CLIENT_SPECIFIC" \/ z_objects # {}
    THEN "CLIENT_SPECIFIC"
    ELSE "STANDARD"

_determine_scope(requested_scope, z_objects, force_scope) ==
    LET has_z_objects == Cardinality(z_objects) > 0
    IN  IF requested_scope = "STANDARD"
        THEN IF has_z_objects /\ ~force_scope THEN "CLIENT_SPECIFIC" ELSE "STANDARD"
        ELSE IF requested_scope = "CLIENT_SPECIFIC"
        THEN "CLIENT_SPECIFIC"
        ELSE IF has_z_objects THEN "CLIENT_SPECIFIC" ELSE "STANDARD"

WarnZ == "STANDARD document contains Z objects"

WarnShort == "Document content is very short"

WarnLong == "Document content is very long, chunking may be suboptimal"

WarnDuplicate == "Document already exists, updated version"

_validate_content(scope, z_objects, t) ==
    (IF scope = "STANDARD" /\ z_objects # {} THEN <<WarnZ>> ELSE <<>>)
    \o (IF TextLen(t) < 50 THEN <<WarnShort>> ELSE <<>>)
    \o (IF TextLen(t) > 50000 THEN <<WarnLong>> ELSE <<>>)

\* ------------------------------------------------------------------------
\* Chunker
\* ------------------------------------------------------------------------

\* tiktoken is an external tokenizer: one token per word
count_tokens(words) == Len(words)

Max(a, b) == IF a >= b THEN a ELSE b

Min(a, b) == IF a <= b THEN a ELSE b

LastWords(words, n) == SubSeq(words, Len(words) - Min(n, Len(words)) + 1, Len(words))

_get_overlap_text(words, overlap_tokens) ==
    IF Len(words) <= 20
    THEN words
    ELSE LastWords(words, Max(10, (overlap_tokens * 3) \div 4))

\* the accumulator of chunk_text: chunks closed so far and the running buffer
ChunkStart == [chunks |-> <<>>, current_chunk |-> <<>>, current_tokens |-> 0,
               chunk_index |-> 0]

\* a flush that starts the next chunk with the overlap alone
ChunkAddOverlapOnly(st, unit, size, overlap) ==
    LET unit_tokens == count_tokens(unit)
    IN  IF st.current_tokens + unit_tokens > size /\ st.current_chunk # <<>>
        THEN LET closed == [content |-> st.current_chunk,
                            index |-> st.chunk_index,
                            token_count |-> st.current_tokens]
                 next == _get_overlap_text(st.current_chunk, overlap)
             IN  [chunks |-> Append(st.chunks, closed),
                  current_chunk |-> next,
                  current_tokens |-> count_tokens(next),
                  chunk_index |-> st.chunk_index + 1]
        ELSE [st EXCEPT !.current_chunk = st.current_chunk \o unit,
                        !.current_tokens = st.current_tokens + unit_tokens]

\* one step of the accumulate/flush/overlap loop, for a sentence of an
\* oversized paragraph or for a whole paragraph
ChunkAdd(st, unit, size, overlap) ==
    LET unit_tokens == count_tokens(unit)
    IN  IF st.current_tokens + unit_tokens > size /\ st.current_chunk # <<>>
        THEN LET closed == [content |-> st.current_chunk,
                            index |-> st.chunk_index,
                            token_count |-> st.current_tokens]
                 next == IF overlap > 0
                         THEN _get_overlap_text(st.current_chunk, overlap) \o unit
                         ELSE unit
             IN  [chunks |-> Append(st.chunks, closed),
                  current_chunk |-> next,
                  current_tokens |-> IF overlap > 0 THEN count_tokens(next)
                                     ELSE unit_tokens,
                  chunk_index |-> st.chunk_index + 1]
        ELSE [st EXCEPT !.current_chunk = st.current_chunk \o unit,
                        !.current_tokens = st.current_tokens + unit_tokens]

RECURSIVE ChunkSentences(_, _, _, _)
ChunkSentences(st, sentences, size, overlap) ==
    IF sentences = <<>> THEN st
    ELSE ChunkSentences(ChunkAdd(st, Head(sentences), size, overlap),
                        Tail(sentences), size, overlap)

RECURSIVE ChunkParagraphs(_, _, _, _)
ChunkParagraphs(st, paragraphs, size, overlap) ==
    IF paragraphs = <<>> THEN st
    ELSE LET paragraph == Head(paragraphs)
             para_tokens == count_tokens(ParagraphWords(paragraph))
             st2 == IF ParagraphWords(paragraph) = <<>> THEN st
                    ELSE IF para_tokens > size
                    THEN ChunkSentences(st, paragraph, size, overlap)
                    ELSE ChunkAdd(st, ParagraphWords(paragraph), size, overlap)
         IN  ChunkParagraphs(st2, Tail(paragraphs), size, overlap)

\* chunk_size = chunk_size or settings.chunk_size (line 48): an argument of
\* None or 0 reads the setting
EffectiveSize(size_arg) == IF size_arg = 0 THEN chunk_size ELSE size_arg

\* overlap = overlap or settings.chunk_overlap (line 49)
EffectiveOverlap(overlap_arg) == IF overlap_arg = 0 THEN chunk_overlap ELSE overlap_arg

\* chunk_text(text, chunk_size, overlap) on the paragraphs of a text
chunk_text_of(paragraphs, size_arg, overlap_arg) ==
    LET st == ChunkParagraphs(ChunkStart, paragraphs, EffectiveSize(size_arg),
                              EffectiveOverlap(overlap_arg))
    IN  IF st.current_chunk # <<>>
        THEN Append(st.chunks, [content |-> st.current_chunk,
                                index |-> st.chunk_index,
                                token_count |-> st.current_tokens])
        ELSE st.chunks

\* chunk_text(text) with the configured chunk_size and chunk_overlap
chunk_text(t) == chunk_text_of(Content(t), 0, 0)

\* paragraphs of the chunker runs: two sentences of three and four words, one
\* sentence of eleven words, and a paragraph of blanks
pTwo == << <<wfallo, wdatos, wZTAB>>, <<wdatos, wfallo, wfallo, wdatos>> >>

pLong == << <<wZTAB, wfallo, wdatos, wfallo, wdatos, wfallo, wdatos, wfallo,
              wdatos, wfallo, wdatos>> >>

pBlank == <<>>

ChunkerParagraphs == {pPlain, pCustom, pTwo, pLong, pBlank}

\* texts of one to three paragraphs
ChunkerTexts ==
    UNION {[1..n -> ChunkerParagraphs] : n \in 1..3}

\* (chunk_size, overlap) arguments with overlap < chunk_size; <<0, 0>> reads
\* both settings
ChunkerConfigs ==
    {<<0, 0>>, <<4, 1>>, <<6, 2>>, <<8, 7>>, <<12, 3>>, <<24, 2>>, <<24, 16>>}

\* ------------------------------------------------------------------------
\* State
\* ------------------------------------------------------------------------

VARIABLES
    documents,       \* Document rows in insertion order; id = position
    chunks,          \* Chunk rows
    points,          \* vector-store points
    call,            \* per process: the ingest request in flight and its result
    started,         \* ingest calls received so far
    settings_bound,  \* whether the name settings resolves in services/ingest.py
    first_count,     \* history: per document, the chunk count its first
                     \* ingestion reported, -1 while it reported none
    retrieval,       \* the last search or chat request and its result
    searches,        \* search and chat requests received so far
    scoring,         \* a call of generate_chat_response: its inputs and result
    chunking,        \* a call of chunk_text: its arguments and result
    reindex,         \* the reindex requests received and the last result
    extraction       \* a call of the metadata extractor: its text and result

vars == <<documents, chunks, points, call, started, settings_bound, first_count,
          retrieval, searches, scoring, chunking, reindex, extraction>>

\* DocumentStructured() with every field at its default
EmptyStructure == [title |-> None, root_cause |-> None, steps |-> <<>>,
                   risks |-> <<>>, needs_clarification |-> FALSE]

\* title and root cause as save_chat_response_as_standard sets them
StructA == [title |-> "A", root_cause |-> "chat", steps |-> <<>>,
            risks |-> <<>>, needs_clarification |-> FALSE]

\* StructA with other steps and risks, same title and root cause
StructB == [title |-> "A", root_cause |-> "chat", steps |-> <<"s2">>,
            risks |-> <<"k1">>, needs_clarification |-> FALSE]

\* structures a caller may supply
ProvidedStructures == {StructA, StructB}

\* what the generation interface may do: fail, return text that is not JSON,
\* return JSON that does not fit DocumentStructured, or return the JSON of a
\* structure
LLMOutcomes == {"error", "not_json", "invalid_fields", "json"}

\* an extraction whose failure branches return the default structure
extract_structure_unflagged(outcome) ==
    IF outcome = "json"
    THEN [title |-> "B", root_cause |-> None, steps |-> <<>>, risks |-> <<>>,
          needs_clarification |-> FALSE]
    ELSE EmptyStructure

\* LLMService.extract_structure: json.JSONDecodeError is caught at line 45,
\* every other exception of the call or of DocumentStructured(**data) at
\* line 52
extract_structure(outcome) ==
    IF outcome = "json"
    THEN [title |-> "B", root_cause |-> None, steps |-> <<>>, risks |-> <<>>,
          needs_clarification |-> FALSE]
    ELSE [EmptyStructure EXCEPT !.needs_clarification = TRUE]

\* DocumentProcessor._structure_content
_structure_content(has_structure, provided_structure, outcome) ==
    IF has_structure THEN provided_structure ELSE extract_structure(outcome)

\* EmbeddingService.generate_content_hash: a digest, equal exactly for equal texts
generate_content_hash(t) == <<"sha256", t>>

Entries == {"text", "text-public", "files", "save-response"}

NoDoc == [id |-> 0, tenant_slug |-> None, scope |-> None, hash |-> <<>>,
          version |-> 0, title |-> None, root_cause |-> None, steps |-> <<>>,
          risks |-> <<>>, force_scope |-> FALSE, type |-> None, system |-> None,
          topic |-> None, tcodes |-> {}, tables |-> {}, tags |-> {},
          source |-> None]

NoResponse == [status |-> None, path |-> None, stage |-> None, id |-> 0,
               tenant_slug |-> None, scope |-> None, version |-> 0,
               chunks_count |-> 0, warnings |-> <<>>]

IdleCall == [pc |-> "idle", entry |-> None, tenant_slug |-> None,
             scope_req |-> None, force_scope |-> FALSE, text |-> None,
             type |-> None, source |-> None, provided |-> NoMetadata,
             metadata |-> NoMetadata,
             has_structure |-> FALSE, llm_outcome |-> None,
             structured |-> EmptyStructure, scope |-> None, warnings |-> <<>>,
             existing_doc |-> NoDoc, document |-> 0, ext |-> {},
             steps |-> <<>>, embedded |-> <<>>, failed_before |-> {},
             alone |-> FALSE, resp |-> NoResponse]

NoRetrieval == [kind |-> None, status |-> None, tenant_slug |-> None,
                filters |-> None, applied |-> None, tenant_filter |-> <<>>,
                hits |-> {}, outcome |-> None, ext |-> {},
                response |-> [answer |-> [lead |-> <<>>, fill |-> -1],
                              confidence |-> -1, needs_clarification |-> FALSE]]

\* no call of generate_chat_response
NoScoring == [n |-> 0, answer |-> [lead |-> <<>>, fill |-> -1], outcome |-> None,
              scored |-> FALSE,
              result |-> [answer |-> [lead |-> <<>>, fill |-> -1], confidence |-> -1,
                          needs_clarification |-> FALSE]]

\* no call of the metadata extractor
NoExtraction == [words |-> <<>>, tcodes_arg |-> {}, extracted |-> FALSE,
                 tcodes |-> {}, tables |-> {}, z_objects |-> {},
                 topic |-> None, system |-> None, topic_of_codes |-> None]

\* no call of chunk_text
NoChunking == [paragraphs |-> <<>>, chunk_size |-> 0, overlap |-> 0,
               chunked |-> FALSE, result |-> <<>>]

\* no reindex request
NoReindex == [calls |-> 0, status |-> None, tenant_slug |-> None, selected |-> {},
              reindexed_documents |-> 0, total_documents |-> 0]

\* the stores after construction, no request received
InitStores ==
    /\ documents = <<>>
    /\ chunks = {}
    /\ points = {}
    /\ call = [p \in Procs |-> IdleCall]
    /\ started = 0
    /\ settings_bound \in BOOLEAN
    /\ first_count = <<>>
    /\ retrieval = NoRetrieval
    /\ searches = 0
    /\ reindex = NoReindex

Init ==
    /\ InitStores
    /\ scoring = NoScoring
    /\ chunking = NoChunking
    /\ extraction = NoExtraction

\* the caller's view of a failure: HTTP 500 from the routers, success=False
\* from ingest_files
Failed(c, stage) ==
    [c EXCEPT !.pc = "done",
              !.resp = [NoResponse EXCEPT !.status = "error", !.stage = stage]]

DocIds == 1..Len(documents)

ChunksOf(d) == {ch \in chunks : ch.document_id = d}

PointsOf(d) == {pt \in points : pt.payload.doc_id = d}

\* the words of the texts the extractor is called on: codes of the allow-lists
\* in upper and lower case, shape matches outside the allow-lists, a custom
\* object, keywords inside words, and words with punctuation
MetadataWords ==
    {wEC85, wec85, wEABLG, wZTAB, wfacturas, wfallo,
     <<"X", "Y", "9", "9">>, <<"E", "S", "2", "1">>, <<"E", "A", "B", "L">>,
     <<"B", "U", "T", "0", "0", "0">>, <<"A", "B", "C">>, <<"A", "l", "t", "a">>,
     <<"f", "a", "l", "t", "a">>, wbaja,
     <<"E", "C", "8", "5", ".">>,
     <<"E", "S", "2", "1", "-", "e", "c", "0", "1">>}

\* texts of one or two words
MetadataTexts == UNION {[1..n -> MetadataWords] : n \in 1..2}

\* the tcodes arguments infer_topic is called with besides the extracted ones
TcodeSets ==
    {{}, {wEC85}, {<<"E", "S", "2", "1">>, <<"E", "C", "0", "1">>},
     {<<"E", "C", "0", "1">>}, {<<"F", "K", "K", "V", "K", "P">>}}

\* the extractor is called on a text: extract_tcodes, extract_tables,
\* detect_z_objects, then infer_topic and infer_system on the extracted codes
\* as _extract_metadata calls them, and infer_topic on the given codes
MetadataCall ==
    /\ ~extraction.extracted
    /\ extraction.words # <<>>
    /\ LET words == extraction.words
           tcodes == extract_tcodes(words)
           tables == extract_tables(words)
       IN  extraction' = [extraction EXCEPT
                !.extracted = TRUE, !.tcodes = tcodes, !.tables = tables,
                !.z_objects = z_objects_of_words(words),
                !.topic = infer_topic(tcodes, tables, words),
                !.system = infer_system(tcodes, tables),
                !.topic_of_codes = infer_topic(extraction.tcodes_arg, {}, words)]
    /\ UNCHANGED <<documents, chunks, points, call, started, settings_bound,
                   first_count, retrieval, searches, scoring, chunking, reindex>>

\* chunk_text is called with its arguments
ChunkCall ==
    /\ ~chunking.chunked
    /\ chunking.paragraphs # <<>>
    /\ chunking' = [chunking EXCEPT !.chunked = TRUE,
                        !.result = chunk_text_of(chunking.paragraphs,
                                        chunking.chunk_size, chunking.overlap)]
    /\ UNCHANGED <<documents, chunks, points, call, started, settings_bound,
                   first_count, retrieval, searches, scoring, reindex, extraction>>

\* ------------------------------------------------------------------------
\* Ingestion: routers and DocumentProcessor.process_document
\* ------------------------------------------------------------------------

\* a request as a router hands it to process_document, with the defaults of
\* DocumentIngest for type, source and metadata
Request(entry, tenant_slug, scope_req, force_scope, text, has_structure, structure) ==
    [entry |-> entry, tenant_slug |-> tenant_slug, scope_req |-> scope_req,
     force_scope |-> force_scope, text |-> text, has_structure |-> has_structure,
     structure |-> structure, type |-> "incidencia", source |-> "manual",
     metadata |-> NoMetadata]

\* POST /ingest/text: every requested scope and force flag, with and without
\* custom objects, for a tenant
ScopeRequestsOfText ==
    {Request("text", "acme", s, f, t, TRUE, StructA) :
        s \in ScopeRequests, f \in BOOLEAN, t \in {"zobj", "plain"}}

\* POST /ingest/text: the same text with another structure or with none
StructureRequests ==
    {Request("text", "acme", None, FALSE, "plain", TRUE, StructB),
     Request("text", "acme", None, FALSE, "plain", FALSE, EmptyStructure)}

\* POST /ingest/text-public: the shared tenant
PublicRequests ==
    {Request("text-public", "STANDARD", None, FALSE, t, TRUE, StructA) :
        t \in {"zobj", "plain"}}

\* POST /ingest/files: DocumentIngest without structure (lines 150-157)
FileRequests ==
    {[Request("files", "acme", "STANDARD", f, "zobj", FALSE, EmptyStructure)
        EXCEPT !.type = "doc", !.source = "file:zobj.txt"] : f \in BOOLEAN}

\* POST /search/save-response: tenant STANDARD, scope STANDARD, no force flag
\* (search.py lines 239-251)
SaveRequests ==
    {[Request("save-response", "STANDARD", "STANDARD", FALSE, t, TRUE, StructA)
        EXCEPT !.type = "nota", !.source = "chat-response:acme"] : t \in TextIds}

\* a text below the minimum length through the other entry points
ShortRequests ==
    {Request("text", "acme", None, FALSE, "short", TRUE, StructA),
     Request("text-public", "acme", None, FALSE, "short", TRUE, StructA),
     Request("files", "acme", None, FALSE, "short", FALSE, EmptyStructure)}

Requests ==
    ScopeRequestsOfText \cup StructureRequests \cup PublicRequests
    \cup FileRequests \cup SaveRequests \cup ShortRequests

\* two tenants submitting the same texts at the same time
RaceRequests ==
    {Request("text", tn, None, FALSE, "plain", TRUE, st) :
        tn \in Tenants, st \in ProvidedStructures}

\* metadata a caller supplies: every field, and no field
ProvidedMetadata ==
    [given |-> TRUE, system |-> "CRM", topic |-> "dunning",
     tcodes |-> {<<"E", "S", "2", "1">>}, tables |-> {}, tags |-> {"t1"}]

EmptyMetadata == [NoMetadata EXCEPT !.given = TRUE]

\* POST /ingest/text of a text that names EC85 and EABLG: without metadata,
\* with metadata, type and source of the caller and no structure, with empty
\* metadata, and under a forced explicit scope
MetadataRequests ==
    {Request("text", "acme", None, FALSE, "codes", TRUE, StructA),
     [Request("text", "acme", None, FALSE, "codes", FALSE, EmptyStructure)
        EXCEPT !.type = "doc", !.source = "wiki", !.metadata = ProvidedMetadata],
     [Request("text", "acme", None, FALSE, "codes", TRUE, StructB)
        EXCEPT !.metadata = EmptyMetadata],
     Request("text", "acme", "CLIENT_SPECIFIC", TRUE, "codes", TRUE, StructA)}

\* ingest_text and ingest_text_public validate the text, ingest_files and
\* save_chat_response_as_standard do not
RouterRejects(r) ==
    r.entry \in {"text", "text-public"} /\ TextLen(r.text) < 10

\* the Documents of a text and a tenant that an ingestion which is over left
\* without Chunk rows
FailedDocs(text, tenant_slug) ==
    {d \in DocIds :
        /\ documents[d].hash = generate_content_hash(text)
        /\ documents[d].tenant_slug = tenant_slug
        /\ ChunksOf(d) = {}
        /\ \A q \in Procs : call[q].document = d => call[q].pc = "done"}

\* a router receives a request; lines 126-149 of process_document run up to
\* the duplicate lookup.  failed_before and alone are history: the Documents
\* of the text that failed ingestions had left without chunks when the
\* request arrived, and whether every other call had returned by then.
StartIngestUpTo(p, requests, max_calls) ==
    /\ call[p].pc \in {"idle", "done"}
    /\ started < max_calls
    /\ started' = started + 1
    /\ \E r \in requests, outcome \in LLMOutcomes :
         /\ r.has_structure => outcome = "json"
         /\ IF RouterRejects(r)
            THEN call' = [call EXCEPT ![p] =
                    [IdleCall EXCEPT !.pc = "done", !.entry = r.entry,
                        !.tenant_slug = r.tenant_slug, !.scope_req = r.scope_req,
                        !.force_scope = r.force_scope, !.text = r.text,
                        !.resp = [NoResponse EXCEPT !.status = "rejected"]]]
            ELSE LET z_objects == detect_z_objects(r.text)
                     scope == _determine_scope(r.scope_req, z_objects, r.force_scope)
                     structured == _structure_content(r.has_structure, r.structure,
                                                      outcome)
                     warnings == _validate_content(scope, z_objects, r.text)
                     extracted_metadata == _extract_metadata(TextWords(r.text))
                     final_metadata == _merge_metadata(extracted_metadata,
                                                       r.metadata)
                 IN  call' = [call EXCEPT ![p] =
                        [IdleCall EXCEPT !.pc = "check", !.entry = r.entry,
                            !.tenant_slug = r.tenant_slug, !.scope_req = r.scope_req,
                            !.force_scope = r.force_scope, !.text = r.text,
                            !.type = r.type, !.source = r.source,
                            !.provided = r.metadata, !.metadata = final_metadata,
                            !.failed_before = FailedDocs(r.text, r.tenant_slug),
                            !.alone = \A q \in Procs \ {p} :
                                         call[q].pc \in {"idle", "done"},
                            !.has_structure = r.has_structure,
                            !.llm_outcome = IF r.has_structure THEN None
                                            ELSE outcome,
                            !.structured = structured, !.scope = scope,
                            !.warnings = warnings,
                            !.ext = IF r.has_structure THEN {}
                                    ELSE {"generation"}]]
    /\ UNCHANGED <<documents, chunks, points, settings_bound, first_count, retrieval, searches,
                   scoring, chunking, reindex, extraction>>

\* a request among at most MaxCalls
StartIngest(p, requests) == StartIngestUpTo(p, requests, MaxCalls)

\* a lookup that matches only rows already updated once
DuplicateRowsOfUpdated(content_hash, tenant_slug) ==
    {i \in DocIds : documents[i].hash = content_hash
                    /\ documents[i].tenant_slug = tenant_slug
                    /\ documents[i].version > 1}

\* the rows the duplicate lookup selects
DuplicateRows(content_hash, tenant_slug) ==
    {i \in DocIds : documents[i].hash = content_hash
                    /\ documents[i].tenant_slug = tenant_slug}

\* DocumentProcessor._check_duplicate; scalar_one_or_none raises when more
\* than one row matches
_check_duplicate(p) ==
    /\ call[p].pc = "check"
    /\ LET c == [call[p] EXCEPT !.ext = @ \cup {"relational"},
                                 !.steps = Append(@, "duplicate_check")]
           rows == DuplicateRows(generate_content_hash(c.text), c.tenant_slug)
       IN  call' = [call EXCEPT ![p] =
              IF Cardinality(rows) > 1 THEN Failed(c, "check_duplicate")
              ELSE IF rows = {} THEN [c EXCEPT !.pc = "create"]
              ELSE [c EXCEPT !.pc = "dup",
                             !.existing_doc = documents[CHOOSE i \in rows : TRUE]]]
    /\ UNCHANGED <<documents, chunks, points, started, settings_bound, first_count,
                   retrieval, searches,
                   scoring, chunking, reindex, extraction>>

\* whether _handle_duplicate updates the row
StructureChanged(new_structure, existing_doc) ==
    \/ new_structure.title # None /\ new_structure.title # existing_doc.title
    \/ new_structure.root_cause # None
       /\ new_structure.root_cause # existing_doc.root_cause

\* an update that bumps the version on every hit
UpdatedDocumentAlways(existing_doc, new_structure) ==
    [existing_doc EXCEPT
        !.version = @ + 1,
        !.title = IF new_structure.title # None THEN new_structure.title ELSE @,
        !.root_cause = IF new_structure.root_cause # None
                       THEN new_structure.root_cause ELSE @]

\* the row _handle_duplicate commits
UpdatedDocument(existing_doc, new_structure) ==
    IF StructureChanged(new_structure, existing_doc)
    THEN [existing_doc EXCEPT
            !.version = @ + 1,
            !.title = IF new_structure.title # None THEN new_structure.title ELSE @,
            !.root_cause = IF new_structure.root_cause # None
                           THEN new_structure.root_cause ELSE @,
            !.steps = IF new_structure.steps # <<>> THEN new_structure.steps ELSE @,
            !.risks = IF new_structure.risks # <<>> THEN new_structure.risks ELSE @]
    ELSE existing_doc

\* a count that leaves out the row of index 0
DuplicateChunksCountFromOne(doc_id) ==
    Cardinality({ch \in ChunksOf(doc_id) : ch.chunk_index > 0})

\* len(existing_doc.chunks), line 301
DuplicateChunksCount(doc_id) == Cardinality(ChunksOf(doc_id))

\* a response that reports the tenant and the scope of the new submission
DuplicateResponseOfRequest(c, doc) ==
    [status |-> "ok", path |-> "dup", stage |-> None, id |-> doc.id,
     tenant_slug |-> c.tenant_slug, scope |-> c.scope, version |-> doc.version,
     chunks_count |-> DuplicateChunksCount(doc.id),
     warnings |-> <<WarnDuplicate>>]

\* the DocumentResponse of _handle_duplicate (lines 303-317), every field
\* read from the stored row
DuplicateResponse(c, doc) ==
    [status |-> "ok", path |-> "dup", stage |-> None, id |-> doc.id,
     tenant_slug |-> doc.tenant_slug, scope |-> doc.scope,
     version |-> doc.version, chunks_count |-> DuplicateChunksCount(doc.id),
     warnings |-> <<WarnDuplicate>>]

\* DocumentProcessor._handle_duplicate
_handle_duplicate(p) ==
    /\ call[p].pc = "dup"
    /\ LET c == call[p]
           doc == UpdatedDocument(c.existing_doc, c.structured)
       IN  /\ documents' = IF StructureChanged(c.structured, c.existing_doc)
                           THEN [documents EXCEPT ![doc.id] = doc]
                           ELSE documents
           /\ call' = [call EXCEPT ![p] =
                [c EXCEPT !.pc = "done", !.document = doc.id,
                          !.resp = DuplicateResponse(c, doc)]]
    /\ UNCHANGED <<chunks, points, started, settings_bound, first_count, retrieval,
                   searches,
                   scoring, chunking, reindex, extraction>>

\* an insert under a unique constraint on (tenant_slug, hash)
InsertDocumentUnique(row) ==
    IF \E i \in DocIds : documents[i].tenant_slug = row.tenant_slug
                         /\ documents[i].hash = row.hash
    THEN documents
    ELSE Append(documents, row)

\* db.add(document) and commit: the documents table has no unique constraint
\* or unique index (models.py lines 78-85), every insert succeeds
InsertDocument(row) == Append(documents, row)

\* DocumentProcessor._create_document
_create_document(p) ==
    /\ call[p].pc = "create"
    /\ LET c == call[p]
           id == Len(documents) + 1
       IN  /\ documents' = InsertDocument(
                [id |-> id, tenant_slug |-> c.tenant_slug, scope |-> c.scope,
                 hash |-> generate_content_hash(c.text), version |-> 1,
                 title |-> c.structured.title,
                 root_cause |-> c.structured.root_cause,
                 steps |-> c.structured.steps, risks |-> c.structured.risks,
                 force_scope |-> c.force_scope, type |-> c.type,
                 system |-> c.metadata.system, topic |-> c.metadata.topic,
                 tcodes |-> c.metadata.tcodes, tables |-> c.metadata.tables,
                 tags |-> c.metadata.tags, source |-> c.source])
           /\ call' = [call EXCEPT ![p] =
                [c EXCEPT !.pc = "chunks", !.document = id,
                          !.steps = Append(@, "document_commit")]]
    /\ first_count' = Append(first_count, -1)
    /\ UNCHANGED <<chunks, points, started, settings_bound, retrieval, searches,
                   scoring, chunking, reindex, extraction>>

\* chunks_data of _process_chunks after the truncation of lines 359-361
ChunksData(t) ==
    LET chunks_data == chunk_text(t)
    IN  IF Len(chunks_data) > max_chunks_per_doc
        THEN SubSeq(chunks_data, 1, max_chunks_per_doc)
        ELSE chunks_data

\* chunk_texts of _process_chunks, line 364
ChunkTexts(t) == [i \in 1..Len(ChunksData(t)) |-> ChunksData(t)[i].content]

\* one embedding call for each chunk text
EmbeddingCallsPerChunk(chunk_texts) ==
    [i \in 1..Len(chunk_texts) |-> <<chunk_texts[i]>>]

\* the calls of the embedding interface that _process_chunks makes, each with
\* its input list: get_embeddings(chunk_texts) once, line 365
EmbeddingCalls(chunk_texts) == <<chunk_texts>>

\* _process_chunks, lines 357-365: chunking, the lookup of settings, and the
\* batched embedding call
_process_chunks_embed(p) ==
    /\ call[p].pc = "chunks"
    /\ LET c == call[p]
           e == [c EXCEPT !.ext = @ \cup {"embedding"},
                          !.steps = Append(@, "embedding"),
                          !.embedded = @ \o EmbeddingCalls(ChunkTexts(c.text))]
       IN  IF ~settings_bound
           THEN call' = [call EXCEPT ![p] = Failed(c, "settings")]
           ELSE \E ok \in BOOLEAN :
                  call' = [call EXCEPT ![p] =
                     IF ok THEN [e EXCEPT !.pc = "upsert"]
                     ELSE Failed(e, "embedding")]
    /\ UNCHANGED <<documents, chunks, points, started, settings_bound, first_count,
                   retrieval, searches,
                   scoring, chunking, reindex, extraction>>

\* a point id that leaves out the position of the chunk
point_id_of_document(document_id, i) == <<document_id, "_", 0>>

\* point_id = f"{document.id}_{i}" (line 373): the document id, an underscore
\* and the position of the chunk in chunks_data, counted from 0
point_id(document_id, i) == <<document_id, "_", i>>

\* the points _process_chunks builds for a document (lines 371-392)
QdrantPoints(doc, t) ==
    {[id |-> point_id(doc.id, i - 1),
      payload |-> [tenant |-> doc.tenant_slug, scope |-> doc.scope,
                   doc_id |-> doc.id, chunk_index |-> ChunksData(t)[i].index]] :
        i \in 1..Len(ChunksData(t))}

\* the rows _process_chunks builds for a document (lines 395-402)
ChunkRecords(doc, t) ==
    {[document_id |-> doc.id, chunk_index |-> ChunksData(t)[i].index,
      token_count |-> ChunksData(t)[i].token_count,
      qdrant_point_id |-> point_id(doc.id, i - 1)] : i \in 1..Len(ChunksData(t))}

\* QdrantService.upsert_points: a point replaces the point of the same id
upsert_points(new_points) ==
    {pt \in points : \A n \in new_points : n.id # pt.id} \cup new_points

\* an upsert that writes the points and then raises
PointsAfterUpsertWritten(ok, new_points) == upsert_points(new_points)

\* the vector store after upsert_points returned (ok) or raised
PointsAfterUpsert(ok, new_points) == IF ok THEN upsert_points(new_points) ELSE points

\* _process_chunks, line 405
_process_chunks_upsert(p) ==
    /\ call[p].pc = "upsert"
    /\ LET c == [call[p] EXCEPT !.ext = @ \cup {"vector"},
                                 !.steps = Append(@, "vector_upsert")]
       IN  \E ok \in BOOLEAN :
             /\ points' = PointsAfterUpsert(ok,
                               QdrantPoints(documents[c.document], c.text))
             /\ call' = [call EXCEPT ![p] =
                   IF ok THEN [c EXCEPT !.pc = "commit"] ELSE Failed(c, "upsert")]
    /\ UNCHANGED <<documents, chunks, started, settings_bound, first_count, retrieval,
                   searches,
                   scoring, chunking, reindex, extraction>>

\* _process_chunks, lines 408-411, and the response of process_document
_process_chunks_commit(p) ==
    /\ call[p].pc = "commit"
    /\ LET c == call[p]
           document == documents[c.document]
           chunk_records == ChunkRecords(document, c.text)
       IN  /\ chunks' = chunks \cup chunk_records
           /\ first_count' = [first_count EXCEPT ![c.document] =
                                 Cardinality(chunk_records)]
           /\ call' = [call EXCEPT ![p] =
                [c EXCEPT !.pc = "done", !.steps = Append(@, "chunk_commit"),
                    !.resp = [status |-> "ok", path |-> "new", stage |-> None,
                              id |-> document.id,
                              tenant_slug |-> document.tenant_slug,
                              scope |-> document.scope,
                              version |-> document.version,
                              chunks_count |-> Cardinality(chunk_records),
                              warnings |-> c.warnings]]]
    /\ UNCHANGED <<documents, points, started, settings_bound, retrieval, searches,
                   scoring, chunking, reindex, extraction>>

Ingest(p, requests) ==
    \/ StartIngest(p, requests)
    \/ _check_duplicate(p)
    \/ _handle_duplicate(p)
    \/ _create_document(p)
    \/ _process_chunks_embed(p)
    \/ _process_chunks_upsert(p)
    \/ _process_chunks_commit(p)

\* one more request than MaxCalls: a request after two that overlapped
MaxRaceCalls == MaxCalls + 1

\* the same text of the same tenant, submitted again and again
LaterRequests == {Request("text", "acme", None, FALSE, "note", TRUE, StructA)}

IngestAgain(p) ==
    \/ StartIngestUpTo(p, LaterRequests, MaxRaceCalls)
    \/ _check_duplicate(p)
    \/ _handle_duplicate(p)
    \/ _create_document(p)
    \/ _process_chunks_embed(p)
    \/ _process_chunks_upsert(p)
    \/ _process_chunks_commit(p)

\* ------------------------------------------------------------------------
\* Administration: POST /admin/reindex
\* ------------------------------------------------------------------------

\* the documents reindex_documents selects (lines 248-253): all of them, or
\* those of the tenant given
ReindexSelection(tenant_slug) ==
    {d \in DocIds : tenant_slug = None \/ documents[d].tenant_slug = tenant_slug}

\* reindex_documents: for every selected document that has Chunk rows the
\* vector points of the rows are deleted (264-268) and the rows are deleted
\* (271-272, committed at 287); a document without Chunk rows is skipped
\* (276-278); nothing is chunked, embedded or upserted again (280-282).  A
\* delete_points that raises is caught per document (284-285) before the
\* rows of that document were marked.
reindex_documents ==
    /\ reindex.calls < MaxReindexes
    /\ \E tenant_slug \in Tenants \cup {None} :
         LET selected == ReindexSelection(tenant_slug)
             with_chunks == {d \in selected : ChunksOf(d) # {}}
         IN  \E raised \in SUBSET with_chunks :
               LET deleted == with_chunks \ raised
                   point_ids == {ch.qdrant_point_id :
                                   ch \in {c \in chunks : c.document_id \in deleted}}
               IN  /\ points' = {pt \in points : pt.id \notin point_ids}
                   /\ chunks' = {ch \in chunks : ch.document_id \notin deleted}
                   /\ reindex' = [calls |-> reindex.calls + 1, status |-> "ok",
                                  tenant_slug |-> tenant_slug, selected |-> selected,
                                  reindexed_documents |-> Cardinality(deleted),
                                  total_documents |-> Cardinality(selected)]
    /\ UNCHANGED <<documents, call, started, settings_bound, first_count, retrieval,
                   searches, scoring, chunking, extraction>>

\* ------------------------------------------------------------------------
\* LLMService: answers and confidence
\* ------------------------------------------------------------------------

\* words an answer may hold
wposiblemente == <<"p", "o", "s", "i", "b", "l", "e", "m", "e", "n", "t", "e">>

wPodria == <<"P", "o", "d", "r", "í", "a">>

wtal == <<"t", "a", "l">>

wvez == <<"v", "e", "z">>

\* the opening words of an answer
AnswerLeads == {<<>>, <<wEC85>>, <<wec85>>, <<wposiblemente>>, <<wPodria>>,
                <<wtal, wvez>>, <<wvez, wtal>>, <<wEC85, wposiblemente>>}

\* an answer text: its opening words, then fill plain words
AnswerWords(a) == a.lead \o [i \in 1..a.fill |-> wdatos]

\* the codes of line 309
SpecificCodes == {<<"E", "C", "8", "5">>, <<"E", "S", "2", "1">>,
                  <<"E", "L", "3", "1">>, <<"E", "A", "B", "L">>}

\* uncertainty_phrases, line 313
uncertainty_phrases ==
    {<<"p", "o", "d", "r", "í", "a">>,
     <<"p", "o", "s", "i", "b", "l", "e", "m", "e", "n", "t", "e">>,
     <<"t", "a", "l", " ", "v", "e", "z">>,
     <<"n", "o", " ", "e", "s", "t", "o", "y", " ", "s", "e", "g", "u", "r", "o">>}

\* a confidence is a rational number, held as a count of units of
\* 1/ConfidenceDen: thirds for the chunk factor, tenths for the three other
\* factors, hundredths for the ceiling factor
ConfidenceDen == 3 * 10 * 10 * 10 * 100

\* the number num/den in units
Rational(num, den) == (num * ConfidenceDen) \div den

\* a chunk factor that does not saturate
chunk_factor_unsaturated(n) == n

\* chunk_factor of line 297, in thirds
chunk_factor(n) == Min(n, 3)

\* length_factor of lines 300-305, in tenths
length_factor(answer_length) ==
    IF answer_length < 20 THEN 5
    ELSE IF answer_length > 300 THEN 8
    ELSE 10

\* specificity_factor of lines 308-310, in tenths
specificity_factor(answer) ==
    LET upper == UpperText(Join(AnswerWords(answer)))
    IN  IF \E code \in SpecificCodes : Contains(upper, code) THEN 12 ELSE 10

\* uncertainty_factor of lines 313-317, in tenths
uncertainty_factor(answer) ==
    LET lower == LowerText(Join(AnswerWords(answer)))
    IN  IF \E phrase \in uncertainty_phrases : Contains(lower, phrase)
        THEN 7 ELSE 10

\* a return that does not clamp
clamp_none(confidence) == confidence

\* min(max(confidence, 0.0), 1.0), line 320
clamp(confidence) == Min(Max(confidence, 0), ConfidenceDen)

\* a score without the early return for an empty context
_calculate_confidence_no_floor(n, answer) ==
    clamp(chunk_factor(n) * length_factor(Len(AnswerWords(answer)))
          * specificity_factor(answer) * uncertainty_factor(answer) * 85)

\* LLMService._calculate_confidence for n context chunks
_calculate_confidence(n, answer) ==
    IF n = 0 THEN Rational(1, 10)
    ELSE clamp(chunk_factor(n) * length_factor(Len(AnswerWords(answer)))
               * specificity_factor(answer) * uncertainty_factor(answer) * 85)

\* the answer of the failure path, lines 153-157
Apology ==
    [lead |-> <<<<"L", "o">>,
               <<"s", "i", "e", "n", "t", "o", ",">>,
               <<"h", "a">>,
               <<"o", "c", "u", "r", "r", "i", "d", "o">>,
               <<"u", "n">>,
               <<"e", "r", "r", "o", "r">>,
               <<"a", "l">>,
               <<"p", "r", "o", "c", "e", "s", "a", "r">>,
               <<"t", "u">>,
               <<"c", "o", "n", "s", "u", "l", "t", "a", ".">>,
               <<"P", "o", "r">>,
               <<"f", "a", "v", "o", "r", ",">>,
               <<"i", "n", "t", "é", "n", "t", "a", "l", "o">>,
               <<"d", "e">>,
               <<"n", "u", "e", "v", "o", ".">>>>,
     fill |-> 0]

\* no answer
NoAnswer == [lead |-> <<>>, fill |-> -1]

\* no result of generate_chat_response
NoResult == [answer |-> NoAnswer, confidence |-> -1, needs_clarification |-> FALSE]

\* LLMService.generate_chat_response, lines 129-157: the completion call
\* returns an answer or raises
generate_chat_response(n, answer, generation_ok) ==
    IF generation_ok
    THEN LET confidence == _calculate_confidence(n, answer)
         IN  [answer |-> answer, confidence |-> confidence,
              needs_clarification |-> confidence < Rational(6, 10)]
    ELSE [answer |-> Apology, confidence |-> Rational(0, 10),
          needs_clarification |-> TRUE]

\* generate_chat_response is called for an answer and an empty context
ScoreFirst ==
    /\ ~scoring.scored
    /\ scoring.outcome # None
    /\ scoring' = [scoring EXCEPT !.scored = TRUE, !.result =
                      generate_chat_response(scoring.n, scoring.answer,
                                             scoring.outcome = "ok")]
    /\ UNCHANGED <<documents, chunks, points, call, started, settings_bound,
                   first_count, retrieval, searches, chunking, reindex, extraction>>

\* the same call with one more context chunk; chat hands over at most
\* top_k_final chunks
ScoreMore ==
    /\ scoring.scored
    /\ scoring.n < top_k_final
    /\ scoring' = [scoring EXCEPT !.n = @ + 1,
                      !.result = generate_chat_response(scoring.n + 1,
                                     scoring.answer, scoring.outcome = "ok")]
    /\ UNCHANGED <<documents, chunks, points, call, started, settings_bound,
                   first_count, retrieval, searches, chunking, reindex, extraction>>

\* ------------------------------------------------------------------------
\* Retrieval: POST /search/vector and POST /search/chat
\* ------------------------------------------------------------------------

\* a filter that leaves out the requesting tenant
tenant_filter_shared_only(tenant_slug) == <<"STANDARD">>

\* vector_search, lines 45-47
tenant_filter_of_search(tenant_slug) ==
    IF tenant_slug # "STANDARD" THEN <<tenant_slug, "STANDARD">> ELSE <<tenant_slug>>

\* chat, lines 126-128
tenant_filter_of_chat(tenant_slug) ==
    IF tenant_slug # "STANDARD" THEN <<tenant_slug, "STANDARD">> ELSE <<tenant_slug>>

\* SearchFilters as a request may carry it: a scope, or transaction codes;
\* filters = None reads as every field at its default
SearchFiltersOf ==
    {[scope |-> s, tcodes |-> <<>>] : s \in ScopeRequests}
    \cup {[scope |-> None, tcodes |-> <<wEC85>>]}

\* whether the request carries a filter the routers never read (tcodes,
\* tables, date_from, date_to of SearchFilters)
CarriesUnsupported(filters) == filters.tcodes # <<>>

\* search_filters of lines 50-57 and 131-138: scope, system and topic are
\* copied, no other field of SearchFilters is read
search_filters(filters) == [scope |-> filters.scope, tcodes |-> <<>>]

\* QdrantService.search: the result sets the store may return, the top_k
\* points among those whose payload passes every condition of the filter
qdrant_search(tenant_filter, top_k, scope_filter) ==
    LET matching == {pt \in points :
                        /\ pt.payload.tenant \in Range(tenant_filter)
                        /\ scope_filter # None => pt.payload.scope = scope_filter}
    IN  {hits \in SUBSET matching :
            Cardinality(hits) = Min(top_k, Cardinality(matching))}

\* a search that takes the points it returns out of the collection
PointsAfterSearchTaken(hits) == points \ hits

\* the vector store after QdrantService.search: client.search reads the
\* collection (lines 226-232); search does not call ensure_collection, upsert
\* or delete
PointsAfterSearch(hits) == points

\* SearchRequest.top_k values of the model
TopKs == {1, 5}

\* what a search request may run into: the embedding call raises, the vector
\* search raises, or both return
SearchOutcomes == {"ok", "embedding", "search"}

\* the external calls made up to a failure
CallsUpTo(outcome) ==
    CASE outcome = "embedding" -> {"embedding"}
      [] outcome = "search" -> {"embedding", "vector"}
      [] outcome = "generation" -> {"embedding", "vector", "generation"}
      [] outcome = "ok" -> {"embedding", "vector"}

\* the except branch of the routers: HTTP 500 with the detail of the error
SearchFailed(kind, tenant_slug, filters, outcome) ==
    [kind |-> kind, status |-> "error", tenant_slug |-> tenant_slug,
     filters |-> filters, applied |-> search_filters(filters),
     tenant_filter |-> <<>>, hits |-> {}, outcome |-> outcome,
     ext |-> CallsUpTo(outcome), response |-> NoResult]

\* POST /search/vector; the embedding call or the search may raise
vector_search ==
    /\ searches < MaxSearches
    /\ searches' = searches + 1
    /\ \E tenant_slug \in Tenants, top_k \in TopKs, filters \in SearchFiltersOf,
          outcome \in SearchOutcomes :
         LET tenant_filter == tenant_filter_of_search(tenant_slug)
             applied == search_filters(filters)
         IN  IF outcome = "ok"
             THEN \E hits \in qdrant_search(tenant_filter, top_k, applied.scope) :
                    /\ points' = PointsAfterSearch(hits)
                    /\ retrieval' = [kind |-> "vector", status |-> "ok",
                                  tenant_slug |-> tenant_slug,
                                  filters |-> filters, applied |-> applied,
                                  tenant_filter |-> tenant_filter, hits |-> hits,
                                  outcome |-> outcome,
                                  ext |-> CallsUpTo(outcome), response |-> NoResult]
             ELSE /\ points' = IF outcome = "search" THEN PointsAfterSearch({})
                                ELSE points
                  /\ retrieval' = SearchFailed("vector", tenant_slug, filters,
                                               outcome)
    /\ UNCHANGED <<documents, chunks, call, started, settings_bound,
                   first_count, scoring, chunking, reindex, extraction>>

\* the answers the generation interface returns in the chat runs: a plain
\* answer of 25 words and a hedged answer of 6 words
ChatAnswers == {[lead |-> <<>>, fill |-> 25], [lead |-> <<wposiblemente>>, fill |-> 5]}

\* what a chat request may run into
ChatOutcomes == SearchOutcomes \cup {"generation"}

\* generate_chat_response on the answers of the chat runs, for every number
\* of context chunks chat hands over and both outcomes of the completion call
chat_responses ==
    [answer \in ChatAnswers |->
        [used \in 0..top_k_final |->
            [generation_ok \in BOOLEAN |->
                generate_chat_response(used, answer, generation_ok)]]]

\* POST /search/chat: embedding, search, the first top_k_final results as
\* context, the generated answer and its confidence
chat ==
    /\ searches < MaxSearches
    /\ searches' = searches + 1
    /\ \E tenant_slug \in Tenants, filters \in SearchFiltersOf :
         LET tenant_filter == tenant_filter_of_chat(tenant_slug)
             applied == search_filters(filters)
         IN  \/ \E outcome \in ChatOutcomes \ {"ok", "generation"} :
                  /\ points' = IF outcome = "search" THEN PointsAfterSearch({})
                                ELSE points
                  /\ retrieval' = SearchFailed("chat", tenant_slug, filters,
                                               outcome)
             \/ \E outcome \in {"ok", "generation"}, answer \in ChatAnswers,
                   search_results \in
                        qdrant_search(tenant_filter, top_k_initial, applied.scope) :
                  LET used == Min(top_k_final, Cardinality(search_results))
                      llm_response == chat_responses[answer][used][outcome = "ok"]
                  IN  \E context_chunks \in SUBSET search_results :
                        /\ Cardinality(context_chunks) = used
                        /\ points' = PointsAfterSearch(search_results)
                        /\ retrieval' = [kind |-> "chat", status |-> "ok",
                                         tenant_slug |-> tenant_slug,
                                         filters |-> filters, applied |-> applied,
                                         tenant_filter |-> tenant_filter,
                                         hits |-> context_chunks,
                                         outcome |-> outcome,
                                         ext |-> CallsUpTo("generation"),
                                         response |-> llm_response]
    /\ UNCHANGED <<documents, chunks, call, started, settings_bound,
                   first_count, scoring, chunking, reindex, extraction>>

\* the documents of the retrieval runs: both tenants, a text with a custom
\* object and a text without, of two paragraphs each
RetrievalRequests ==
    {Request(e, tn, None, FALSE, t, TRUE, StructA) :
        e \in {"text"}, tn \in Tenants, t \in {"zobj", "note"}}

\* ------------------------------------------------------------------------
\* Specifications
\* ------------------------------------------------------------------------

\* ingest calls one at a time
Next == Ingest("p1", Requests)

Spec == Init /\ [][Next]_vars

\* ingest calls that overlap
NextConcurrent == \E p \in Procs : Ingest(p, RaceRequests)

SpecConcurrent == Init /\ [][NextConcurrent]_vars

\* ingest calls of one text that overlap, and calls after them
NextRace == \E p \in Procs : IngestAgain(p)

SpecRace == Init /\ [][NextRace]_vars

\* ingest calls one at a time, and searches
NextRetrieval ==
    \/ Ingest("p1", RetrievalRequests)
    \/ vector_search
    \/ chat

SpecRetrieval == Init /\ [][NextRetrieval]_vars

\* ingest calls one at a time, and reindex requests
NextReindex ==
    \/ Ingest("p1", RetrievalRequests)
    \/ reindex_documents

SpecReindex == Init /\ [][NextReindex]_vars

\* the extractor on a text and a set of codes, or no call of it
InitMetadata ==
    /\ InitStores
    /\ scoring = NoScoring
    /\ chunking = NoChunking
    /\ extraction \in {NoExtraction} \cup
            {[NoExtraction EXCEPT !.words = w, !.tcodes_arg = c] :
                w \in MetadataTexts, c \in TcodeSets}

\* a behaviour calls the extractor on its text, or runs ingest requests
NextMetadata ==
    \/ MetadataCall
    \/ extraction = NoExtraction /\ Ingest("p1", MetadataRequests)

SpecMetadata == InitMetadata /\ [][NextMetadata]_vars

\* the answers generate_chat_response is scored on: every opening, and fills
\* around the two length thresholds
Answers ==
    {[lead |-> l, fill |-> f] :
        l \in AnswerLeads, f \in {0, 5, 18, 19, 20, 299, 300, 301}}

\* calls of generate_chat_response for an answer, with a growing context
InitConfidence ==
    /\ InitStores
    /\ chunking = NoChunking
    /\ extraction = NoExtraction
    /\ scoring \in {[NoScoring EXCEPT !.answer = a, !.outcome = o] :
                        a \in Answers, o \in {"ok", "generation"}}

NextConfidence == ScoreFirst \/ ScoreMore

\* calls of chunk_text on texts and configurations
InitChunker ==
    /\ InitStores
    /\ scoring = NoScoring
    /\ extraction = NoExtraction
    /\ chunking \in {[NoChunking EXCEPT !.paragraphs = ps, !.chunk_size = cfg[1],
                                         !.overlap = cfg[2]] :
                         ps \in ChunkerTexts, cfg \in ChunkerConfigs}

NextChunker == ChunkCall

SpecChunker == InitChunker /\ [][NextChunker]_vars

SpecConfidence == InitConfidence /\ [][NextConfidence]_vars

TypeOK ==
    /\ started \in 0..MaxRaceCalls
    /\ Len(documents) <= MaxRaceCalls
    /\ Len(first_count) = Len(documents)

\* ------------------------------------------------------------------------
\* Properties
\* ------------------------------------------------------------------------

\* process_document was entered for the request of p
Entered(p) == call[p].pc # "idle" /\ call[p].resp.status # "rejected"

\* the call of p returned a DocumentResponse through the duplicate path
ReturnedDuplicate(p) == call[p].pc = "done" /\ call[p].resp.path = "dup"

HasCustomObjects(t) == detect_z_objects(t) # {}

\* the text a Document row was created from
TextOf(doc) == doc.hash[2]

\* C1: when ingest calls run one at a time, no two Document rows have the
\* same tenant_slug and the same content hash.
C1_UniqueTenantHash ==
    \A i, j \in DocIds :
        (documents[i].tenant_slug = documents[j].tenant_slug
            /\ documents[i].hash = documents[j].hash) => i = j

\* a text was ingested again for its tenant, and the tenant has one row for it
C1_Witness ==
    /\ ReturnedDuplicate("p1")
    /\ Cardinality(DuplicateRows(generate_content_hash(call["p1"].text),
                                 call["p1"].tenant_slug)) = 1
    /\ started = 2

C3_DuplicateLeavesChunks ==
    /\ [](\A p \in Procs :
            ReturnedDuplicate(p) =>
                /\ call[p].ext \cap {"embedding", "vector"} = {}
                /\ first_count[call[p].resp.id] >= 0 =>
                      call[p].resp.chunks_count = first_count[call[p].resp.id])
    /\ [][\A p \in Procs :
            (call'[p] # call[p] /\ (call'[p].pc \in {"check", "dup"}
                                    \/ call'[p].resp.path = "dup"))
                => (chunks' = chunks /\ points' = points)]_vars

\* a duplicate hit on a document that has chunks
C3_Witness ==
    /\ ReturnedDuplicate("p1")
    /\ call["p1"].resp.chunks_count > 0
    /\ call["p1"].resp.chunks_count = first_count[call["p1"].resp.id]

\* the tenant values a request of a tenant may see
AllowedTenants(tenant_slug) ==
    IF tenant_slug = "STANDARD" THEN {"STANDARD"} ELSE {tenant_slug, "STANDARD"}

\* C4: the tenant filter of a search or chat request of tenant t holds exactly
\* t and STANDARD, exactly STANDARD when t is STANDARD, and every hit returned
\* has a payload tenant in that set.
C4_TenantFilter ==
    retrieval.status = "ok" =>
        /\ Range(retrieval.tenant_filter) = AllowedTenants(retrieval.tenant_slug)
        /\ \A hit \in retrieval.hits :
              hit.payload.tenant \in AllowedTenants(retrieval.tenant_slug)

\* a vector search of STANDARD returned hits while points of acme were stored
C4_Witness ==
    /\ retrieval.status = "ok"
    /\ retrieval.kind = "vector"
    /\ retrieval.tenant_slug = "STANDARD"
    /\ retrieval.hits # {}
    /\ \E pt \in points : pt.payload.tenant = "acme"

\* the table of the specification, section 4.2
ScopeTable(requested, hasCustomObjects, forceFlag) ==
    CASE requested = "STANDARD" /\ ~hasCustomObjects -> "STANDARD"
      [] requested = "STANDARD" /\ hasCustomObjects /\ ~forceFlag -> "CLIENT_SPECIFIC"
      [] requested = "STANDARD" /\ hasCustomObjects /\ forceFlag -> "STANDARD"
      [] requested = "CLIENT_SPECIFIC" -> "CLIENT_SPECIFIC"
      [] requested = None /\ ~hasCustomObjects -> "STANDARD"
      [] requested = None /\ hasCustomObjects -> "CLIENT_SPECIFIC"

\* C5: the scope resolved for a request is the entry of the table for its
\* requested scope, the presence of custom objects in its text and its force
\* flag.
C5_ScopeTable ==
    \A p \in Procs :
        Entered(p) =>
            call[p].scope = ScopeTable(call[p].scope_req,
                                       HasCustomObjects(call[p].text),
                                       call[p].force_scope)

\* STANDARD was requested for a text with a custom object, without force
C5_Witness ==
    /\ Entered("p1")
    /\ call["p1"].scope_req = "STANDARD"
    /\ HasCustomObjects(call["p1"].text)
    /\ ~call["p1"].force_scope
    /\ call["p1"].scope = "CLIENT_SPECIFIC"

\* C6: for a text with a custom object and requested scope STANDARD, without
\* the force flag the scope is CLIENT_SPECIFIC and the warnings list is not
\* empty; with the force flag the scope is STANDARD.
C6_DowngradeWarned ==
    \A p \in Procs :
        (Entered(p) /\ HasCustomObjects(call[p].text)
            /\ call[p].scope_req = "STANDARD") =>
                IF call[p].force_scope
                THEN call[p].scope = "STANDARD"
                ELSE call[p].scope = "CLIENT_SPECIFIC" /\ call[p].warnings # <<>>

CreatedRow(p) == call[p].document # 0 /\ call[p].existing_doc.id = 0

\* C8: when two overlapping ingest calls of the same tenant and text both pass
\* the duplicate check before either commits, both inserts succeed and two
\* Document rows with the same tenant_slug and hash exist.
C8_RaceCreatesTwoRows ==
    \A p, q \in Procs :
        (p # q /\ CreatedRow(p) /\ CreatedRow(q)
            /\ call[p].tenant_slug = call[q].tenant_slug
            /\ call[p].text = call[q].text) =>
                /\ call[p].document \in DocIds
                /\ call[q].document \in DocIds
                /\ call[p].document # call[q].document
                /\ documents[call[p].document].tenant_slug
                      = documents[call[q].document].tenant_slug
                /\ documents[call[p].document].hash = documents[call[q].document].hash

\* both calls returned and the table holds two rows of one tenant and hash
C8_Witness ==
    /\ \A p \in Procs : call[p].pc = "done"
    /\ \E i, j \in DocIds :
          /\ i # j
          /\ documents[i].tenant_slug = documents[j].tenant_slug
          /\ documents[i].hash = documents[j].hash

\* the call of p failed in the embedding call or in the vector upsert
FailedAfterCommit(p) ==
    /\ call[p].pc = "done"
    /\ call[p].resp.status = "error"
    /\ call[p].resp.stage \in {"embedding", "upsert"}

C10_ShortTextRejected ==
    \A p \in Procs :
        (call[p].pc # "idle" /\ TextLen(call[p].text) < 10) =>
            /\ call[p].resp.status = "rejected"
            /\ call[p].ext = {}
            /\ call[p].document = 0

\* C11: a search or chat request that carries a filter the retrieval does
\* not support is rejected before the embedding call and before the vector
\* search.
C11_UnsupportedFilterRejected ==
    (retrieval.kind # None /\ CarriesUnsupported(retrieval.filters)) =>
        /\ retrieval.status = "rejected"
        /\ retrieval.ext = {}

\* the generation interface returned an answer for the chat request
Answered == retrieval.kind = "chat" /\ retrieval.outcome = "ok"

\* C12: a chat request whose retrieval returned no hit, and whose answer the
\* generation interface returned, has confidence 0.1 and needs_clarification
\* true.
C12_EmptyContextConfidence ==
    (Answered /\ retrieval.hits = {}) =>
        /\ retrieval.response.confidence = Rational(1, 10)
        /\ retrieval.response.needs_clarification

\* a chat of a tenant without hits, while the store holds points of another
\* tenant, answered with the plain answer
C12_Witness ==
    /\ Answered
    /\ retrieval.hits = {}
    /\ points # {}
    /\ retrieval.response.answer = [lead |-> <<>>, fill |-> 25]
    /\ retrieval.response.confidence = Rational(1, 10)

\* the step of scoring the same answer with one more context chunk
OneMoreChunk ==
    /\ scoring.scored
    /\ scoring.outcome = "ok"
    /\ scoring'.n = scoring.n + 1
    /\ scoring'.answer = scoring.answer

\* C13 as stated: for a fixed answer the confidence does not decrease from n
\* to n + 1 context chunks for every n from 0 on, is 0.1 at n = 0 and does not
\* change from n = 3 on.
C13_MonotoneFromZero ==
    [][OneMoreChunk =>
          /\ scoring'.result.confidence >= scoring.result.confidence
          /\ scoring.n = 0 => scoring.result.confidence = Rational(1, 10)
          /\ scoring.n >= 3 =>
                scoring'.result.confidence = scoring.result.confidence]_vars

\* C13 amended: for a fixed answer the confidence is 0.1 at n = 0, does not
\* decrease from n to n + 1 context chunks for every n from 1 on, and does
\* not change from n = 3 on.
C13_MonotoneFromOne ==
    [][OneMoreChunk =>
          /\ scoring.n >= 1 =>
                scoring'.result.confidence >= scoring.result.confidence
          /\ scoring.n = 0 => scoring.result.confidence = Rational(1, 10)
          /\ scoring.n >= 3 =>
                scoring'.result.confidence = scoring.result.confidence]_vars

\* an answer scored with four chunks, above the score of an empty context
C13_Witness ==
    /\ scoring.outcome = "ok"
    /\ scoring.n = 4
    /\ scoring.scored
    /\ scoring.result.confidence > Rational(1, 10)

\* C14: every result of generate_chat_response, of the success path and of
\* the failure path, has a confidence from 0 to 1, and needs_clarification is
\* true when the confidence is below 0.6.
C14_ConfidenceRange ==
    scoring.scored =>
        /\ scoring.result.confidence >= 0
        /\ scoring.result.confidence <= ConfidenceDen
        /\ scoring.result.confidence < Rational(6, 10) =>
              scoring.result.needs_clarification

\* a product of the factors above 1 was clamped to 1
C14_Witness ==
    /\ scoring.scored
    /\ scoring.outcome = "ok"
    /\ specificity_factor(scoring.answer) = 12
    /\ scoring.result.confidence = ConfidenceDen
    /\ ~scoring.result.needs_clarification

\* C15: when the query embedding, the vector search or the answer generation
\* of a chat request fails, the caller receives the apology answer with
\* confidence 0 and needs_clarification true.
C15_FailureApology ==
    (retrieval.kind = "chat" /\ retrieval.outcome \in {"embedding", "search", "generation"}) =>
        /\ retrieval.status = "ok"
        /\ retrieval.response.answer = Apology
        /\ retrieval.response.confidence = 0
        /\ retrieval.response.needs_clarification

\* the structure extract_structure returns when the extraction failed
FlaggedEmpty == [EmptyStructure EXCEPT !.needs_clarification = TRUE]

\* the generation interface failed or returned output that is not a structure
StructuringFailed(p) ==
    Entered(p) /\ ~call[p].has_structure /\ call[p].llm_outcome # "json"

\* C16: when the caller supplies no structure and the extraction fails or its
\* output cannot be parsed, the call goes on with the empty structure flagged
\* needs_clarification: it reaches the duplicate lookup, and the Document row
\* it creates holds the empty structure.
C16_StructuringFailureProceeds ==
    \A p \in Procs :
        StructuringFailed(p) =>
            /\ call[p].structured = FlaggedEmpty
            /\ "generation" \in call[p].ext
            /\ call[p].pc # "check" => "relational" \in call[p].ext
            /\ (call[p].document # 0 /\ call[p].existing_doc.id = 0) =>
                  /\ call[p].document \in DocIds
                  /\ documents[call[p].document].title = None
                  /\ documents[call[p].document].steps = <<>>

\* an ingest whose extraction returned JSON of other fields created its
\* Document and returned
C16_Witness ==
    /\ StructuringFailed("p1")
    /\ call["p1"].llm_outcome = "invalid_fields"
    /\ call["p1"].pc = "done"
    /\ call["p1"].resp.status = "ok"
    /\ call["p1"].resp.path = "new"
    /\ documents[call["p1"].resp.id].title = None

\* C17: every chunk chunk_text returns has at most chunk_size tokens, in its
\* content and in its token_count, for every text and every configuration
\* with overlap < chunk_size.
C17_ChunkTokenBound ==
    chunking.chunked =>
        \A i \in 1..Len(chunking.result) :
            /\ chunking.result[i].token_count <= EffectiveSize(chunking.chunk_size)
            /\ count_tokens(chunking.result[i].content)
                  <= EffectiveSize(chunking.chunk_size)

\* chunk i without the overlap copied from the end of chunk i - 1
WithoutOverlap(result, i, overlap) ==
    IF i = 1 THEN result[1].content
    ELSE SubSeq(result[i].content,
                Len(_get_overlap_text(result[i - 1].content, overlap)) + 1,
                Len(result[i].content))

\* C18: the chunks of a text in index order, each after the first without its
\* overlap, concatenate to the paragraphs and sentences of the text, each once
\* and in the order of the text.
C18_ChunksReconstructText ==
    chunking.chunked =>
        /\ \A i \in 1..Len(chunking.result) : chunking.result[i].index = i - 1
        /\ Concat([i \in 1..Len(chunking.result) |->
                      WithoutOverlap(chunking.result, i,
                                     EffectiveOverlap(chunking.overlap))])
             = Concat([i \in 1..Len(chunking.paragraphs) |->
                          ParagraphWords(chunking.paragraphs[i])])

\* a text was cut after a chunk of more than twenty words, whose overlap is
\* its last words only
C18_Witness ==
    /\ chunking.chunked
    /\ Len(chunking.result) >= 2
    /\ \E i \in 1..(Len(chunking.result) - 1) :
          /\ Len(chunking.result[i].content) > 20
          /\ Len(_get_overlap_text(chunking.result[i].content,
                                   EffectiveOverlap(chunking.overlap)))
                < Len(chunking.result[i].content)

\* the text of the call of p yields more chunks than max_chunks_per_doc, its
\* Document row was created, and the chunk stage ran without a failure of the
\* settings lookup, of the embedding call or of the upsert
OverCeiling(p) ==
    /\ call[p].pc = "done"
    /\ CreatedRow(p)
    /\ Len(chunk_text(call[p].text)) > max_chunks_per_doc
    /\ call[p].resp.stage \notin {"settings", "embedding", "upsert"}

\* a warning that is none of the validation warnings
OtherWarning(w) == w \notin {WarnZ, WarnShort, WarnLong, WarnDuplicate}

\* C19: when the text yields more chunks than max_chunks_per_doc, the ingest
\* succeeds, stores max_chunks_per_doc Chunk rows and as many vector points,
\* and its warnings hold a warning of the truncation.
C19_TruncationWarned ==
    \A p \in Procs :
        OverCeiling(p) =>
            /\ call[p].resp.status = "ok"
            /\ Cardinality(ChunksOf(call[p].document)) = max_chunks_per_doc
            /\ Cardinality(PointsOf(call[p].document)) = max_chunks_per_doc
            /\ \E w \in Range(call[p].resp.warnings) : OtherWarning(w)

\* C20: a successful ingest response holds every warning raised for its
\* submission: the validation warnings, and on the duplicate path the
\* duplicate notice with them.
C20_WarningsReturned ==
    \A p \in Procs :
        (call[p].pc = "done" /\ call[p].resp.status = "ok") =>
            /\ Range(call[p].warnings) \subseteq Range(call[p].resp.warnings)
            /\ call[p].resp.path = "dup" =>
                  WarnDuplicate \in Range(call[p].resp.warnings)

\* the steps of an ingestion of new content, in the order of lines 152-162
\* and 364-409
NewContentSteps ==
    <<"duplicate_check", "document_commit", "embedding", "vector_upsert",
      "chunk_commit">>

\* the call of p found no duplicate
NewContent(p) ==
    Len(call[p].steps) >= 1 /\ call[p].pc # "dup" /\ call[p].resp.path # "dup"
    /\ call[p].resp.stage # "check_duplicate"

\* C21: in every ingestion of new content the steps taken so far are a prefix
\* of duplicate check, Document commit, embedding, vector upsert, Chunk
\* commit, so each occurs at most once, in this order and with no retry; the
\* embedding interface is called exactly once with all chunk texts; the
\* document has no vector point before its row is committed and the upsert was
\* called, and no Chunk row before the upsert returned and the Chunk commit ran;
\* a successful ingestion took all five steps.
C21_StepOrder ==
    \A p \in Procs :
        NewContent(p) =>
            LET c == call[p]
                done(step) == step \in Range(c.steps)
            IN  /\ Len(c.steps) <= Len(NewContentSteps)
                /\ c.steps = SubSeq(NewContentSteps, 1, Len(c.steps))
                /\ c.embedded = IF done("embedding") THEN <<ChunkTexts(c.text)>>
                                ELSE <<>>
                /\ ~done("document_commit") =>
                        c.document = 0 /\ c.pc \in {"check", "create"}
                /\ done("document_commit") => c.document \in DocIds
                /\ (c.document \in DocIds /\ PointsOf(c.document) # {}) =>
                        done("vector_upsert")
                /\ (c.document \in DocIds /\ ChunksOf(c.document) # {}) =>
                        /\ done("chunk_commit")
                        /\ \A ch \in ChunksOf(c.document) :
                              \E pt \in points : pt.id = ch.qdrant_point_id
                /\ (c.pc = "done" /\ c.resp.status = "ok") =>
                        c.steps = NewContentSteps

\* an ingestion of a text of several chunks took the five steps and returned
C21_Witness ==
    \E p \in Procs :
        /\ NewContent(p)
        /\ call[p].pc = "done" /\ call[p].resp.status = "ok"
        /\ call[p].steps = NewContentSteps
        /\ Len(ChunkTexts(call[p].text)) >= 2
        /\ Cardinality(PointsOf(call[p].document)) >= 2
        /\ Cardinality(ChunksOf(call[p].document)) >= 2

\* the call of p ingested new content and returned its response
IngestedNew(p) ==
    call[p].pc = "done" /\ call[p].resp.status = "ok" /\ call[p].resp.path = "new"

\* C22: after a successful ingestion of new content that yields n chunks (the
\* chunks of the text up to the configured ceiling) the Document has exactly n
\* Chunk rows with indexes 0..n-1, the vector store holds exactly n points for
\* it with ids "{documentId}_{i}" for i in 0..n-1, the Chunk row with index i
\* stores point id "{documentId}_{i}", the reported chunk count is n, and
\* upserting the same points again leaves the vector store unchanged.
C22_ChunksAndPoints ==
    \A p \in Procs :
        IngestedNew(p) =>
            LET d == call[p].document
                n == Len(ChunksData(call[p].text))
            IN  /\ Cardinality(ChunksOf(d)) = n
                /\ {ch.chunk_index : ch \in ChunksOf(d)} = 0..(n - 1)
                /\ Cardinality(PointsOf(d)) = n
                /\ {pt.id : pt \in PointsOf(d)} = {<<d, "_", i>> : i \in 0..(n - 1)}
                /\ \A ch \in ChunksOf(d) :
                      ch.qdrant_point_id = <<d, "_", ch.chunk_index>>
                /\ call[p].resp.chunks_count = n
                /\ upsert_points(QdrantPoints(documents[d], call[p].text)) = points

\* a second document was ingested with two chunks while the vector store
\* already held the points of the first
C22_Witness ==
    \E p \in Procs :
        /\ IngestedNew(p)
        /\ call[p].document = 2
        /\ Len(ChunksData(call[p].text)) = 2
        /\ Cardinality(PointsOf(call[p].document)) = 2
        /\ PointsOf(1) # {}

\* the value a structured field holds after an update in place that takes a
\* non-empty submitted value and keeps the stored value otherwise
Overwritten(submitted, stored, empty) ==
    IF submitted # empty THEN submitted ELSE stored

\* C23: on a duplicate hit, for each of title, root cause, steps and risks
\* independently, a non-empty value of the new submission replaces the stored
\* value and an empty one keeps it; a resubmission that changes only steps or
\* only risks updates them.
C23_FieldsOverwritten ==
    \A p \in Procs :
        ReturnedDuplicate(p) =>
            LET new == call[p].structured
                old == call[p].existing_doc
                row == documents[old.id]
            IN  /\ row.title = Overwritten(new.title, old.title, None)
                /\ row.root_cause = Overwritten(new.root_cause, old.root_cause, None)
                /\ row.steps = Overwritten(new.steps, old.steps, <<>>)
                /\ row.risks = Overwritten(new.risks, old.risks, <<>>)

\* the Chunk rows of document d have their vector points
PointsMatch(d) ==
    \A ch \in ChunksOf(d) : \E pt \in PointsOf(d) : pt.id = ch.qdrant_point_id

\* C24: when a reindex request completes, every Document it covers has Chunk
\* rows and matching vector points afterwards, in particular one that a
\* partial ingestion failure had left with zero chunks, and no Document has
\* fewer Chunk rows or vector points than before.
C24_ReindexHeals ==
    [][reindex'.calls > reindex.calls =>
          /\ \A d \in reindex'.selected :
                 (\A p \in Procs : call[p].document = d => call[p].pc = "done") =>
                    ChunksOf(d)' # {} /\ PointsMatch(d)'
          /\ \A d \in DocIds :
                 /\ Cardinality(ChunksOf(d)') >= Cardinality(ChunksOf(d))
                 /\ Cardinality(PointsOf(d)') >= Cardinality(PointsOf(d))]_vars

\* the topic the inference is to return: the first topic of the mapping order
\* with a code among tcodes, else the first topic of the keyword order with a
\* keyword in the text in any case, else none
ClaimedTopic(tcodes, words) ==
    LET text == Join(words)
        code_hit(i) == TOPIC_MAPPING[i].tcodes \cap tcodes # {}
        word_hit(i) == \E kw \in TOPIC_KEYWORDS[i].words :
                          \E k \in 1..(Len(text) - Len(kw) + 1) :
                             \A j \in 1..Len(kw) :
                                text[k + j - 1] \in {kw[j], UpperChar(kw[j])}
        first(hit(_), n) == CHOOSE i \in 1..n : hit(i) /\ \A j \in 1..(i - 1) : ~hit(j)
    IN  IF \E i \in 1..Len(TOPIC_MAPPING) : code_hit(i)
        THEN TOPIC_MAPPING[first(code_hit, Len(TOPIC_MAPPING))].topic
        ELSE IF \E i \in 1..Len(TOPIC_KEYWORDS) : word_hit(i)
        THEN TOPIC_KEYWORDS[first(word_hit, Len(TOPIC_KEYWORDS))].topic
        ELSE None

\* the extractor returns the claimed topic, on the codes it extracted and on
\* the codes it was given
TopicAsClaimed ==
    extraction.extracted =>
        /\ extraction.topic = ClaimedTopic(extraction.tcodes, extraction.words)
        /\ extraction.topic_of_codes =
              ClaimedTopic(extraction.tcodes_arg, extraction.words)

\* the request of p was entered with a text that names EC85 and EABLG and no
\* custom object, and with no explicit scope
NamesBillingCodes(p) ==
    /\ Entered(p)
    /\ {wEC85, wEABLG} \subseteq UpperTokens(TextWords(call[p].text))
    /\ detect_z_objects(call[p].text) = {}
    /\ call[p].scope_req = None

\* the request of p is resolved, and its Document if it creates one is
\* stored, with scope STANDARD, topic billing and system IS-U
IngestedAsBilling(p) ==
    /\ call[p].scope = "STANDARD"
    /\ call[p].metadata.topic = "billing"
    /\ call[p].metadata.system = "IS-U"
    /\ "document_commit" \in Range(call[p].steps) =>
          /\ documents[call[p].document].scope = "STANDARD"
          /\ documents[call[p].document].topic = "billing"
          /\ documents[call[p].document].system = "IS-U"

\* C25 as stated: topic inference returns the first topic of the mapping order
\* whose codes meet the extracted codes whatever the text, else the first
\* topic of the keyword order with a keyword in the text, else none; and every
\* text that names EC85 and EABLG with no custom object and no explicit scope
\* is ingested with scope STANDARD, topic billing and system IS-U.
C25_TopicInference ==
    /\ TopicAsClaimed
    /\ \A p \in Procs : NamesBillingCodes(p) => IngestedAsBilling(p)

\* C25 amended: the same, the ingestion taken for the requests whose caller
\* metadata supplies no topic and no system.
C25_TopicInferenceUnlessSupplied ==
    /\ TopicAsClaimed
    /\ \A p \in Procs :
          (NamesBillingCodes(p) /\ call[p].provided.topic = None
           /\ call[p].provided.system = None) => IngestedAsBilling(p)

\* a text that names EC85, EABLG and a keyword of move-out was ingested under
\* empty caller metadata as a billing document
C25_Witness ==
    \E p \in Procs :
        /\ NamesBillingCodes(p)
        /\ call[p].provided.given
        /\ \E kw \in TOPIC_KEYWORDS[3].words :
              Contains(LowerText(Join(TextWords(call[p].text))), kw)
        /\ call[p].pc = "done" /\ call[p].resp.status = "ok"
        /\ call[p].resp.path = "new"
        /\ documents[call[p].document].topic = "billing"
        /\ documents[call[p].document].system = "IS-U"

\* the runs of word characters of the text as it is written
WrittenTokens(words) == UNION {Range(Tokens(words[i])) : i \in 1..Len(words)}

\* the extractor returned, of the tokens given, the transaction-code shapes
\* of the allow-list, the table shapes of the allow-list, and every
\* custom-object shape
ExtractedFrom(tokens) ==
    /\ extraction.tcodes =
          {tok \in tokens : TCODE_PATTERN(tok)} \cap ISU_TCODES
    /\ extraction.tables =
          {tok \in tokens : TABLE_PATTERN(tok)} \cap ISU_TABLES
    /\ extraction.z_objects = {tok \in tokens : Z_OBJECT_PATTERN(tok)}

\* C26 as stated: for every text the extracted transaction codes are exactly
\* the tokens of the text that match the transaction-code shape and are in
\* its allow-list, the extracted tables exactly the tokens that match the
\* table shape and are in its allow-list, and custom-object detection returns
\* every shape match with no allow-list filter.
C26_TokensOfText ==
    extraction.extracted => ExtractedFrom(WrittenTokens(extraction.words))

\* C26 amended: the same of the tokens of the upper-cased text, so that a
\* code written in lower case is returned in upper case; a shape match
\* outside its allow-list is never returned.
C26_TokensOfUpperText ==
    extraction.extracted =>
        /\ ExtractedFrom(UpperTokens(extraction.words))
        /\ extraction.tcodes \subseteq ISU_TCODES
        /\ extraction.tables \subseteq ISU_TABLES

\* the extractor ran on a text with a code in lower case and a shape match
\* outside the allow-list, and returned the code in upper case alone
C26_Witness ==
    /\ extraction.extracted
    /\ wec85 \in Range(extraction.words)
    /\ \E w \in Range(extraction.words) : TCODE_PATTERN(w) /\ w \notin ISU_TCODES
    /\ extraction.tcodes = {wEC85}

\* the relational store and the vector store
Stores == <<documents, chunks, points>>

\* C27: a step of a vector search request or of a chat request, successful
\* or failed, leaves the Document rows, the Chunk rows and the vector points
\* unchanged; every step that changes them is a step of an ingestion call,
\* which is how the save-response operation reaches them.
C27_SearchLeavesStores ==
    [][/\ searches' # searches => Stores' = Stores
       /\ Stores' # Stores => (searches' = searches /\ call' # call)]_vars

\* a chat request was answered from two points of a store of two documents
C27_Witness ==
    /\ retrieval.kind = "chat"
    /\ retrieval.status = "ok"
    /\ Cardinality(retrieval.hits) >= 2
    /\ Len(documents) = 2
    /\ chunks # {}

\* the call of p returned without having created a Document
FoundExisting(p) ==
    call[p].pc = "done" /\ Entered(p) /\ "document_commit" \notin Range(call[p].steps)

\* C28: after any interleaving of ingest calls, also one that created two
\* Documents with the same (tenant_slug, hash), an ingest of that text for
\* that tenant that arrives when the others have returned and finds existing
\* content completes through the duplicate path and returns a response; its
\* duplicate lookup never fails for more than one matching Document.
C28_LookupNeverFails ==
    \A p \in Procs :
        call[p].alone =>
            /\ call[p].resp.stage # "check_duplicate"
            /\ FoundExisting(p) =>
                  call[p].resp.status = "ok" /\ ReturnedDuplicate(p)

\* C29: once an ingestion has failed after committing its Document row, every
\* ingest of the same text for the same tenant that arrives later, when the
\* other calls have returned, takes the duplicate path,
\* reports chunk count 0 and creates no Chunk rows or vector points, so the
\* Document it had left without chunks stays without them.
C29_ResubmissionNeverHeals ==
    \A p \in Procs :
        (call[p].pc = "done" /\ Entered(p) /\ call[p].failed_before # {}
         /\ call[p].alone) =>
            /\ ReturnedDuplicate(p)
            /\ call[p].resp.chunks_count = 0
            /\ \A d \in call[p].failed_before :
                  ChunksOf(d) = {} /\ PointsOf(d) = {}

\* the fields of a Document row that a duplicate hit is to leave alone
Provenance(row) ==
    [tenant_slug |-> row.tenant_slug, scope |-> row.scope, type |-> row.type,
     system |-> row.system, topic |-> row.topic, tcodes |-> row.tcodes,
     tables |-> row.tables, tags |-> row.tags, source |-> row.source,
     hash |-> row.hash]

\* every vector point carries the tenant and the scope of its Document
PayloadsMatch ==
    \A pt \in points :
        /\ pt.payload.doc_id \in DocIds
        /\ pt.payload.tenant = documents[pt.payload.doc_id].tenant_slug
        /\ pt.payload.scope = documents[pt.payload.doc_id].scope

\* C30: an ingest call that takes the duplicate path leaves the stored
\* Document's tenant, scope, type, system, topic, transaction codes, tables,
\* tags, source and hash unchanged whatever the new submission carries, the
\* scope of the response is the stored scope, and the payload tenant and scope
\* of every vector point stay those of its Document.
C30_DuplicateKeepsProvenance ==
    [][\A p \in Procs :
          (call[p].pc = "dup" /\ call'[p].pc = "done") =>
              LET d == call[p].existing_doc.id
              IN  /\ Provenance(documents'[d]) = Provenance(documents[d])
                  /\ call'[p].resp.scope = documents[d].scope
                  /\ call'[p].resp.tenant_slug = documents[d].tenant_slug
                  /\ points' = points
                  /\ PayloadsMatch'
                  /\ PayloadsMatch]_vars

\* a duplicate hit whose submission resolved to another scope and carried
\* other metadata, type and source than the stored Document, which has points
C30_Witness ==
    \E p \in Procs :
        /\ ReturnedDuplicate(p)
        /\ call[p].scope # documents[call[p].document].scope
        /\ call[p].metadata.topic # documents[call[p].document].topic
        /\ call[p].type # documents[call[p].document].type
        /\ call[p].source # documents[call[p].document].source
        /\ call[p].resp.scope = documents[call[p].document].scope
        /\ PointsOf(call[p].document) # {}

====
